---- MODULE Spec2Model ----
(***************************************************************************)
(* A model of RuntimeEngine (src/shared/runtime.rs): the Registry          *)
(* `iter` (a Vec of (priority, JoinHandle) behind an async Mutex), the     *)
(* worker pool `engine` of every engine (a threadpool::ThreadPool with a   *)
(* FIFO job queue and a fixed number of threads), the spawned tasks of     *)
(* write_task, and the Result Stream `stream` shared by all duplicates.    *)
(*                                                                         *)
(* A task is identified by the number of its write_task call (1, 2, ...).  *)
(* Engine 1 is the engine built by init(); engine 2 is its clone().        *)
(***************************************************************************)
EXTENDS Integers, Sequences, FiniteSets, TLC

VARIABLES
    registry,   \* the Vec behind `iter`: a sequence of task ids
    lock,       \* the holder of the Mutex around `iter`
    queue,      \* queue[e]: the jobs waiting for a thread of e's pool
    active,     \* active[e]: the jobs running on a thread of e's pool
    pc,         \* pc[e]: where the caller of engine e is
    tc,         \* tc[e]: the local `task_count` of wait_for_all_tasks / wait_for
    cnt,        \* cnt[e]: the local `count` of wait_for
    status,     \* status[t]: where the spawned task of write_task number t is
    prio,       \* prio[t]: the priority given to write_task
    owner,      \* owner[t]: the engine write_task was called on
    cancelReq,  \* cancelReq[t]: handle.cancel() was called on t's handle
    items,      \* the results held by the Result Stream (by task)
    count,      \* the in-flight counter of the Result Stream
    landed,     \* the tasks whose append job has pushed their handle
    popped,     \* the tasks whose handle iter.pop() has taken out of the Registry
    drainLog,   \* drainLog[e]: the tasks popped by e's drain in progress, in order
    atCall      \* atCall[e]: what the caller saw when it entered its operation

vars == <<registry, lock, queue, active, pc, tc, cnt, status, prio, owner,
          cancelReq, items, count, landed, popped, drainLog, atCall>>

(* ------------------------------ bounds -------------------------------- *)
MaxTasks == 3
MaxTasksWait == 4
MaxTasksDup == 2
MaxPriority == 3
MaxPriorityLow == 2
NumThreads == 2

Engines == {1, 2}
Priorities == 1..MaxPriority
Tasks == DOMAIN status
Submitted == {t \in Tasks : status[t] # "none"}

(* ------------------------------ helpers ------------------------------- *)
Free == <<"free", 0, 0>>

Job(kind, t) == [kind |-> kind, task |-> t]

Running(kind, t, st, cur) == [kind |-> kind, task |-> t, st |-> st, cur |-> cur]

Front(s) == SubSeq(s, 1, Len(s) - 1)

Last(s) == s[Len(s)]

Range(s) == {s[i] : i \in 1..Len(s)}

\* the comparison the other way round: rhs.0.cmp(&lhs.0)
PriorityCmpGe(lhs, rhs) == prio[lhs] >= prio[rhs]

\* lhs.0.cmp(&rhs.0) of the sort_by closures: TRUE when lhs is not after rhs
PriorityCmpLe(lhs, rhs) == prio[lhs] <= prio[rhs]

RECURSIVE InsertStable(_, _)
InsertStable(s, x) ==
    IF s = <<>> THEN <<x>>
    ELSE IF PriorityCmpLe(Last(s), x) THEN Append(s, x)
    ELSE Append(InsertStable(Front(s), x), Last(s))

RECURSIVE SortByPriority(_)
\* iter.sort_by(|lhs, rhs| lhs.0.cmp(&rhs.0)): stable, ascending
SortByPriority(s) ==
    IF Len(s) <= 1 THEN s
    ELSE InsertStable(SortByPriority(Front(s)), Last(s))

\* a barrier that only waits for the queue to empty, not for the running jobs
PoolQueueEmpty(e) == queue[e] = <<>>

\* a poll that returns at once
PoolNoJoin(e) == TRUE

\* a barrier on one pool shared by an engine and its clone
PoolIdleAll(e) == \A x \in Engines : queue[x] = <<>> /\ active[x] = {}

\* ThreadPool::join returns when no job is queued and none is running
PoolIdle(e) == queue[e] = <<>> /\ active[e] = {}

\* the usize comparison `a < b`; a negative number stands for a wrapped value
USizeLess(a, b) ==
    IF a >= 0 /\ b < 0 THEN TRUE
    ELSE IF a < 0 /\ b >= 0 THEN FALSE
    ELSE a < b

(* The Result Stream (crate::async_stream::stream::AsyncStream): a collection *)
(* of results and an in-flight counter, after its contract in the design.    *)
\* is_empty(): no result and no in-flight task
StreamIsEmpty == items = {} /\ count = 0

\* task_count(): the in-flight counter
StreamTaskCount == count

\* increment(): one more in-flight task
StreamIncrement == count + 1

\* decrement_task_count(): one fewer in-flight task (a usize that wraps)
StreamDecrement == count - 1

\* insert_item(item): the result of task t is recorded
StreamInsertItem(t) == items \cup {t}

\* cancel_tasks(): no result and no in-flight task is tracked any more
StreamCancelledItems == {}

StreamCancelledCount == 0

\* a JoinHandle that never resolves once its task has panicked
ResolvedNoPanic(t) == status[t] \in {"done", "cancelled"}

\* a JoinHandle is resolved when its task ran to the end, was dropped or panicked
Resolved(t) == status[t] \in {"done", "cancelled", "panicked"}

(* ------------------------------- Init --------------------------------- *)
InitWith(n) ==
    /\ registry = <<>>
    /\ lock = Free
    /\ queue = [e \in Engines |-> <<>>]
    /\ active = [e \in Engines |-> {}]
    /\ pc = [e \in Engines |-> IF e = 1 THEN "idle" ELSE "absent"]
    /\ tc = [e \in Engines |-> 0]
    /\ cnt = [e \in Engines |-> 0]
    /\ status = [t \in 1..n |-> "none"]
    /\ prio = [t \in 1..n |-> 0]
    /\ owner = [t \in 1..n |-> 0]
    /\ cancelReq = [t \in 1..n |-> FALSE]
    /\ items = {}
    /\ count = 0
    /\ landed = {}
    /\ popped = {}
    /\ drainLog = [e \in Engines |-> <<>>]
    /\ atCall = [e \in Engines |-> 0]

Init == InitWith(MaxTasks)

(* --------------------------- the spawned task -------------------------- *)
\* a task that is only started by its append job
TaskIncrementAfterAppend(t) ==
    /\ status[t] = "spawned"
    /\ t \in landed
    /\ status' = [status EXCEPT ![t] = "running"]
    /\ count' = StreamIncrement
    /\ UNCHANGED <<registry, lock, queue, active, pc, tc, cnt, prio, owner,
                   cancelReq, items, landed, popped, drainLog, atCall>>

\* stream.increment().await
TaskIncrement(t) ==
    /\ status[t] = "spawned"
    /\ status' = [status EXCEPT ![t] = "running"]
    /\ count' = StreamIncrement
    /\ UNCHANGED <<registry, lock, queue, active, pc, tc, cnt, prio, owner,
                   cancelReq, items, landed, popped, drainLog, atCall>>

\* a task that inserts its result without having incremented the counter
TaskInsertUncounted(t) ==
    /\ status[t] = "spawned"
    /\ status' = [status EXCEPT ![t] = "inserted"]
    /\ items' = StreamInsertItem(t)
    /\ UNCHANGED <<registry, lock, queue, active, pc, tc, cnt, prio, owner,
                   cancelReq, count, landed, popped, drainLog, atCall>>

\* stream.insert_item(task.await).await
TaskInsert(t) ==
    /\ status[t] = "running"
    /\ status' = [status EXCEPT ![t] = "inserted"]
    /\ items' = StreamInsertItem(t)
    /\ UNCHANGED <<registry, lock, queue, active, pc, tc, cnt, prio, owner,
                   cancelReq, count, landed, popped, drainLog, atCall>>

\* stream.decrement_task_count().await
TaskDecrement(t) ==
    /\ status[t] = "inserted"
    /\ status' = [status EXCEPT ![t] = "done"]
    /\ count' = StreamDecrement
    /\ UNCHANGED <<registry, lock, queue, active, pc, tc, cnt, prio, owner,
                   cancelReq, items, landed, popped, drainLog, atCall>>

\* task.await panics: the task ends with no result and no decrement
TaskPanic(t) ==
    /\ status[t] = "running"
    /\ status' = [status EXCEPT ![t] = "panicked"]
    /\ UNCHANGED <<registry, lock, queue, active, pc, tc, cnt, prio, owner,
                   cancelReq, items, count, landed, popped, drainLog, atCall>>

\* a task whose handle was cancelled is dropped at an await point
TaskCancelled(t) ==
    /\ cancelReq[t]
    /\ status[t] \in {"spawned", "running", "inserted"}
    /\ status' = [status EXCEPT ![t] = "cancelled"]
    /\ UNCHANGED <<registry, lock, queue, active, pc, tc, cnt, prio, owner,
                   cancelReq, items, count, landed, popped, drainLog, atCall>>

(* ---------------------------- the worker pool -------------------------- *)
\* a free thread of e's pool takes the oldest queued job
JobStart(e) ==
    /\ queue[e] # <<>>
    /\ Cardinality(active[e]) < NumThreads
    /\ active' = [active EXCEPT ![e] =
           @ \cup {Running(Head(queue[e]).kind, Head(queue[e]).task, "start", 0)}]
    /\ queue' = [queue EXCEPT ![e] = Tail(@)]
    /\ UNCHANGED <<registry, lock, pc, tc, cnt, status, prio, owner,
                   cancelReq, items, count, landed, popped, drainLog, atCall>>

\* an append job that goes on without waiting for the Mutex
AppendAcquireNoWait(e, j) ==
    /\ j \in active[e] /\ j.kind = "append" /\ j.st = "start"
    /\ lock' = <<"append", e, j.task>>
    /\ active' = [active EXCEPT ![e] = (@ \ {j}) \cup {[j EXCEPT !.st = "locked"]}]
    /\ UNCHANGED <<registry, queue, pc, tc, cnt, status, prio, owner,
                   cancelReq, items, count, landed, popped, drainLog, atCall>>

\* write_task's job: lock.lock().await
AppendAcquire(e, j) ==
    /\ j \in active[e] /\ j.kind = "append" /\ j.st = "start"
    /\ lock = Free
    /\ lock' = <<"append", e, j.task>>
    /\ active' = [active EXCEPT ![e] = (@ \ {j}) \cup {[j EXCEPT !.st = "locked"]}]
    /\ UNCHANGED <<registry, queue, pc, tc, cnt, status, prio, owner,
                   cancelReq, items, count, landed, popped, drainLog, atCall>>

\* write_task's job: iter.push((priority, task)); the guard is dropped
AppendPush(e, j) ==
    /\ j \in active[e] /\ j.kind = "append" /\ j.st = "locked"
    /\ registry' = Append(registry, j.task)
    /\ landed' = landed \cup {j.task}
    /\ lock' = Free
    /\ active' = [active EXCEPT ![e] = @ \ {j}]
    /\ UNCHANGED <<queue, pc, tc, cnt, status, prio, owner,
                   cancelReq, items, count, popped, drainLog, atCall>>

\* cancel's job: lock.lock().await
CancelAcquire(e, j) ==
    /\ j \in active[e] /\ j.kind = "cancel" /\ j.st = "start"
    /\ lock = Free
    /\ lock' = <<"cancel", e, 0>>
    /\ active' = [active EXCEPT ![e] = (@ \ {j}) \cup {[j EXCEPT !.st = "locked"]}]
    /\ UNCHANGED <<registry, queue, pc, tc, cnt, status, prio, owner,
                   cancelReq, items, count, landed, popped, drainLog, atCall>>

\* cancel's job: iter.pop() gave an entry; handle.cancel() is called
CancelPop(e, j) ==
    /\ j \in active[e] /\ j.kind = "cancel" /\ j.st = "locked" /\ j.cur = 0
    /\ registry # <<>>
    /\ registry' = Front(registry)
    /\ popped' = popped \cup {Last(registry)}
    /\ cancelReq' = [cancelReq EXCEPT ![Last(registry)] = TRUE]
    /\ active' = [active EXCEPT ![e] =
           (@ \ {j}) \cup {[j EXCEPT !.cur = Last(registry)]}]
    /\ UNCHANGED <<lock, queue, pc, tc, cnt, status, prio, owner,
                   items, count, landed, drainLog, atCall>>

\* cancel's job: handle.cancel().await returns once the task has stopped
CancelAwaited(e, j) ==
    /\ j \in active[e] /\ j.kind = "cancel" /\ j.st = "locked" /\ j.cur # 0
    /\ Resolved(j.cur)
    /\ active' = [active EXCEPT ![e] = (@ \ {j}) \cup {[j EXCEPT !.cur = 0]}]
    /\ UNCHANGED <<registry, lock, queue, pc, tc, cnt, status, prio, owner,
                   cancelReq, items, count, landed, popped, drainLog, atCall>>

\* cancel's job: iter.pop() gave None; the guard is dropped
CancelFinish(e, j) ==
    /\ j \in active[e] /\ j.kind = "cancel" /\ j.st = "locked" /\ j.cur = 0
    /\ registry = <<>>
    /\ lock' = Free
    /\ active' = [active EXCEPT ![e] = @ \ {j}]
    /\ UNCHANGED <<registry, queue, pc, tc, cnt, status, prio, owner,
                   cancelReq, items, count, landed, popped, drainLog, atCall>>

\* a drain's job: handle.await returns
WaitFinish(e, j) ==
    /\ j \in active[e] /\ j.kind = "wait"
    /\ Resolved(j.task)
    /\ active' = [active EXCEPT ![e] = @ \ {j}]
    /\ UNCHANGED <<registry, lock, queue, pc, tc, cnt, status, prio, owner,
                   cancelReq, items, count, landed, popped, drainLog, atCall>>

(* ------------------------------ write_task ----------------------------- *)
\* the number of the next write_task call
NextTask == CHOOSE t \in Tasks : status[t] = "none" /\ \A u \in 1..(t - 1) : status[u] # "none"

\* write_task(priority, task): spawn the task, queue the append job
WriteTask(e, p) ==
    /\ pc[e] = "idle"
    /\ \E t \in Tasks : status[t] = "none"
    /\ status' = [status EXCEPT ![NextTask] = "spawned"]
    /\ prio' = [prio EXCEPT ![NextTask] = p]
    /\ owner' = [owner EXCEPT ![NextTask] = e]
    /\ queue' = [queue EXCEPT ![e] = Append(@, Job("append", NextTask))]
    /\ UNCHANGED <<registry, lock, active, pc, tc, cnt, cancelReq, items,
                   count, landed, popped, drainLog, atCall>>

(* -------------------------------- cancel ------------------------------- *)
\* cancel(): self.engine.execute(the cancel job)
CancelCall(e) ==
    /\ pc[e] = "idle"
    /\ queue' = [queue EXCEPT ![e] = Append(@, Job("cancel", 0))]
    /\ pc' = [pc EXCEPT ![e] = "cancel_stream"]
    /\ UNCHANGED <<registry, lock, active, tc, cnt, status, prio, owner,
                   cancelReq, items, count, landed, popped, drainLog, atCall>>

\* cancel(): stream.cancel_tasks() discards the results and the counter
CancelStream(e) ==
    /\ pc[e] = "cancel_stream"
    /\ items' = StreamCancelledItems
    /\ count' = StreamCancelledCount
    /\ pc' = [pc EXCEPT ![e] = "cancel_poll"]
    /\ UNCHANGED <<registry, lock, queue, active, tc, cnt, status, prio, owner,
                   cancelReq, landed, popped, drainLog, atCall>>

\* cancel(): self.poll() returns, and so does cancel
CancelPoll(e) ==
    /\ pc[e] = "cancel_poll"
    /\ PoolIdle(e)
    /\ pc' = [pc EXCEPT ![e] = "idle"]
    /\ UNCHANGED <<registry, lock, queue, active, tc, cnt, status, prio, owner,
                   cancelReq, items, count, landed, popped, drainLog, atCall>>

(* -------------------------- wait_for_all_tasks ------------------------- *)
\* wait_for_all_tasks() is entered; self.poll() starts
WfaCall(e) ==
    /\ pc[e] = "idle"
    /\ pc' = [pc EXCEPT ![e] = "wfa_poll"]
    /\ atCall' = [atCall EXCEPT ![e] = IF StreamIsEmpty \/ count = 0 THEN 1 ELSE 2]
    /\ UNCHANGED <<registry, lock, queue, active, tc, cnt, status, prio, owner,
                   cancelReq, items, count, landed, popped, drainLog>>

\* self.poll() returns; task_count = self.stream.clone().task_count()
WfaPoll(e) ==
    /\ pc[e] = "wfa_poll"
    /\ PoolIdle(e)
    /\ tc' = [tc EXCEPT ![e] = StreamTaskCount]
    /\ pc' = [pc EXCEPT ![e] = "wfa_check"]
    /\ UNCHANGED <<registry, lock, queue, active, cnt, status, prio, owner,
                   cancelReq, items, count, landed, popped, drainLog, atCall>>

\* the short circuit with `&&` in place of `||`
ShortCircuitBoth(e) == StreamIsEmpty /\ tc[e] = 0

\* if stream.is_empty().await || task_count == 0 { return; }
ShortCircuit(e) == StreamIsEmpty \/ tc[e] = 0

WfaCheck(e) ==
    /\ pc[e] = "wfa_check"
    /\ IF ShortCircuit(e)
       THEN /\ pc' = [pc EXCEPT ![e] = "idle"]
            /\ tc' = [tc EXCEPT ![e] = 0]
            /\ atCall' = [atCall EXCEPT ![e] = 0]
       ELSE /\ pc' = [pc EXCEPT ![e] = "wfa_lock"]
            /\ UNCHANGED <<tc, atCall>>
    /\ UNCHANGED <<registry, lock, queue, active, cnt, status, prio, owner,
                   cancelReq, items, count, landed, popped, drainLog>>

\* let mut iter = lock.lock().await; iter.sort_by(..)
WfaLock(e) ==
    /\ pc[e] = "wfa_lock"
    /\ lock = Free
    /\ lock' = <<"wfa", e, 0>>
    /\ registry' = SortByPriority(registry)
    /\ drainLog' = [drainLog EXCEPT ![e] = <<>>]
    /\ pc' = [pc EXCEPT ![e] = "wfa_drain"]
    /\ UNCHANGED <<queue, active, tc, cnt, status, prio, owner,
                   cancelReq, items, count, landed, popped, atCall>>

\* a drain that reads the last entry and leaves it in the Registry
WfaPopKeep(e) ==
    /\ pc[e] = "wfa_drain"
    /\ registry # <<>>
    /\ queue' = [queue EXCEPT ![e] = Append(@, Job("wait", Last(registry)))]
    /\ drainLog' = [drainLog EXCEPT ![e] = Append(@, Last(registry))]
    /\ popped' = popped \cup {Last(registry)}
    /\ UNCHANGED <<registry, lock, active, pc, tc, cnt, status, prio, owner,
                   cancelReq, items, count, landed, atCall>>

\* while let Some((_, handle)) = iter.pop() { engine.execute(handle.await) }
WfaPop(e) ==
    /\ pc[e] = "wfa_drain"
    /\ registry # <<>>
    /\ registry' = Front(registry)
    /\ queue' = [queue EXCEPT ![e] = Append(@, Job("wait", Last(registry)))]
    /\ drainLog' = [drainLog EXCEPT ![e] = Append(@, Last(registry))]
    /\ popped' = popped \cup {Last(registry)}
    /\ UNCHANGED <<lock, active, pc, tc, cnt, status, prio, owner,
                   cancelReq, items, count, landed, atCall>>

\* a drain that returns after its last pop, without the final poll
WfaReturnNoPoll(e) ==
    /\ pc[e] = "wfa_drain"
    /\ registry = <<>>
    /\ lock' = Free
    /\ pc' = [pc EXCEPT ![e] = "idle"]
    /\ tc' = [tc EXCEPT ![e] = 0]
    /\ atCall' = [atCall EXCEPT ![e] = 0]
    /\ drainLog' = [drainLog EXCEPT ![e] = <<>>]
    /\ UNCHANGED <<registry, queue, active, cnt, status, prio, owner,
                   cancelReq, items, count, landed, popped>>

\* iter.pop() gave None; self.poll() returns; the guard `iter` is dropped
WfaReturn(e) ==
    /\ pc[e] = "wfa_drain"
    /\ registry = <<>>
    /\ PoolIdle(e)
    /\ lock' = Free
    /\ pc' = [pc EXCEPT ![e] = "idle"]
    /\ tc' = [tc EXCEPT ![e] = 0]
    /\ atCall' = [atCall EXCEPT ![e] = 0]
    /\ drainLog' = [drainLog EXCEPT ![e] = <<>>]
    /\ UNCHANGED <<registry, queue, active, cnt, status, prio, owner,
                   cancelReq, items, count, landed, popped>>

(* ------------------------------- wait_for ------------------------------ *)
\* wait_for(count) is entered; self.poll() starts
WfCall(e, c) ==
    /\ pc[e] = "idle"
    /\ pc' = [pc EXCEPT ![e] = "wf_poll"]
    /\ cnt' = [cnt EXCEPT ![e] = c]
    /\ atCall' = [atCall EXCEPT ![e] = IF count = c THEN 1 ELSE 2]
    /\ UNCHANGED <<registry, lock, queue, active, tc, status, prio, owner,
                   cancelReq, items, count, landed, popped, drainLog>>

\* self.poll() returns; task_count = self.stream.clone().task_count()
WfPoll(e) ==
    /\ pc[e] = "wf_poll"
    /\ PoolIdle(e)
    /\ tc' = [tc EXCEPT ![e] = StreamTaskCount]
    /\ pc' = [pc EXCEPT ![e] = "wf_check"]
    /\ UNCHANGED <<registry, lock, queue, active, cnt, status, prio, owner,
                   cancelReq, items, count, landed, popped, drainLog, atCall>>

\* helper thread: if stream.is_empty().await || task_count == 0 { return; }
WfCheck(e) ==
    /\ pc[e] = "wf_check"
    /\ pc' = [pc EXCEPT ![e] = IF ShortCircuit(e) THEN "wf_join" ELSE "wf_lock"]
    /\ UNCHANGED <<registry, lock, queue, active, tc, cnt, status, prio, owner,
                   cancelReq, items, count, landed, popped, drainLog, atCall>>

\* helper thread: let mut iter = lock.lock().await
WfLock(e) ==
    /\ pc[e] = "wf_lock"
    /\ lock = Free
    /\ lock' = <<"wf", e, 0>>
    /\ pc' = [pc EXCEPT ![e] = "wf_guard"]
    /\ UNCHANGED <<registry, queue, active, tc, cnt, status, prio, owner,
                   cancelReq, items, count, landed, popped, drainLog, atCall>>

\* the guards without the first one
GuardRejectsLenOnly(e) == cnt[e] > Len(registry)

\* if count < task_count { return; }  if count > iter.len() { return; }
GuardRejects(e) == USizeLess(cnt[e], tc[e]) \/ cnt[e] > Len(registry)

\* helper thread: the two guards, then iter.sort_by(..)
WfGuard(e) ==
    /\ pc[e] = "wf_guard"
    /\ IF GuardRejects(e)
       THEN /\ lock' = Free
            /\ pc' = [pc EXCEPT ![e] = "wf_join"]
            /\ UNCHANGED <<registry, drainLog>>
       ELSE /\ registry' = SortByPriority(registry)
            /\ drainLog' = [drainLog EXCEPT ![e] = <<>>]
            /\ pc' = [pc EXCEPT ![e] = "wf_drain"]
            /\ UNCHANGED lock
    /\ UNCHANGED <<queue, active, tc, cnt, status, prio, owner,
                   cancelReq, items, count, landed, popped, atCall>>

\* helper thread: one turn of `while count != 0`
WfPop(e) ==
    /\ pc[e] = "wf_drain"
    /\ cnt[e] # 0
    /\ IF registry # <<>>
       THEN /\ registry' = Front(registry)
            /\ queue' = [queue EXCEPT ![e] = Append(@, Job("wait", Last(registry)))]
            /\ drainLog' = [drainLog EXCEPT ![e] = Append(@, Last(registry))]
            /\ popped' = popped \cup {Last(registry)}
       ELSE UNCHANGED <<registry, queue, drainLog, popped>>
    /\ cnt' = [cnt EXCEPT ![e] = @ - 1]
    /\ UNCHANGED <<lock, active, pc, tc, status, prio, owner,
                   cancelReq, items, count, landed, atCall>>

\* a helper thread that ends without dropping the guard
WfUnlockKept(e) ==
    /\ pc[e] = "wf_drain"
    /\ cnt[e] = 0
    /\ pc' = [pc EXCEPT ![e] = "wf_join"]
    /\ UNCHANGED <<registry, lock, queue, active, tc, cnt, status, prio, owner,
                   cancelReq, items, count, landed, popped, drainLog, atCall>>

\* helper thread: count is 0, the guard `iter` is dropped, the thread ends
WfUnlock(e) ==
    /\ pc[e] = "wf_drain"
    /\ cnt[e] = 0
    /\ lock' = Free
    /\ pc' = [pc EXCEPT ![e] = "wf_join"]
    /\ UNCHANGED <<registry, queue, active, tc, cnt, status, prio, owner,
                   cancelReq, items, count, landed, popped, drainLog, atCall>>

\* .join() returns; self.poll() returns, and so does wait_for
WfReturn(e) ==
    /\ pc[e] = "wf_join"
    /\ PoolIdle(e)
    /\ pc' = [pc EXCEPT ![e] = "idle"]
    /\ tc' = [tc EXCEPT ![e] = 0]
    /\ cnt' = [cnt EXCEPT ![e] = 0]
    /\ atCall' = [atCall EXCEPT ![e] = 0]
    /\ drainLog' = [drainLog EXCEPT ![e] = <<>>]
    /\ UNCHANGED <<registry, lock, queue, active, status, prio, owner,
                   cancelReq, items, count, landed, popped>>

(* ---------------------------- drop and clone --------------------------- *)
\* drop(&mut self) is entered; self.poll() starts
DropCall(e) ==
    /\ pc[e] = "idle"
    /\ pc' = [pc EXCEPT ![e] = "drop_poll"]
    /\ UNCHANGED <<registry, lock, queue, active, tc, cnt, status, prio, owner,
                   cancelReq, items, count, landed, popped, drainLog, atCall>>

\* self.poll() returns; the engine is gone
DropPoll(e) ==
    /\ pc[e] = "drop_poll"
    /\ PoolIdle(e)
    /\ pc' = [pc EXCEPT ![e] = "dropped"]
    /\ UNCHANGED <<registry, lock, queue, active, tc, cnt, status, prio, owner,
                   cancelReq, items, count, landed, popped, drainLog, atCall>>

\* clone(&self): the same Registry and stream, a new pool
Clone ==
    /\ pc[1] = "idle"
    /\ pc[2] = "absent"
    /\ pc' = [pc EXCEPT ![2] = "idle"]
    /\ UNCHANGED <<registry, lock, queue, active, tc, cnt, status, prio, owner,
                   cancelReq, items, count, landed, popped, drainLog, atCall>>

(* --------------------------- specifications ---------------------------- *)
RunStep ==
    \E t \in Tasks : TaskIncrement(t) \/ TaskInsert(t) \/ TaskDecrement(t)

AppendStep(e) ==
    \E j \in active[e] : AppendAcquire(e, j) \/ AppendPush(e, j)

CancelJobStep(e) ==
    \E j \in active[e] :
        \/ CancelAcquire(e, j) \/ CancelPop(e, j)
        \/ CancelAwaited(e, j) \/ CancelFinish(e, j)

WaitJobStep(e) == \E j \in active[e] : WaitFinish(e, j)

WaitAllStep(e) ==
    WfaCall(e) \/ WfaPoll(e) \/ WfaCheck(e) \/ WfaLock(e) \/ WfaPop(e) \/ WfaReturn(e)

WaitForStep(e, C) ==
    \/ \E c \in C : WfCall(e, c)
    \/ WfPoll(e) \/ WfCheck(e) \/ WfLock(e) \/ WfGuard(e)
    \/ WfPop(e) \/ WfUnlock(e) \/ WfReturn(e)

CancelStep(e) == CancelCall(e) \/ CancelStream(e) \/ CancelPoll(e)

DropStep(e) == DropCall(e) \/ DropPoll(e)

SubmitStep(e, P) == \E p \in P : WriteTask(e, p)

\* one engine: write_task, wait_for_all_tasks and drop
NextDrain ==
    \/ RunStep
    \/ JobStart(1) \/ AppendStep(1) \/ WaitJobStep(1)
    \/ SubmitStep(1, Priorities)
    \/ WaitAllStep(1)
    \/ DropStep(1)

SpecDrain == Init /\ [][NextDrain]_vars

\* one engine: write_task and wait_for(count), count up to the number of tasks
NextWaitFor ==
    \/ RunStep
    \/ JobStart(1) \/ AppendStep(1) \/ WaitJobStep(1)
    \/ SubmitStep(1, 1..MaxPriorityLow)
    \/ WaitForStep(1, 1..MaxTasks)

SpecWaitFor == Init /\ [][NextWaitFor]_vars

\* one engine: write_task, then wait_for(3), with one task more than 3
NextPartial ==
    \/ RunStep
    \/ JobStart(1) \/ AppendStep(1) \/ WaitJobStep(1)
    \/ SubmitStep(1, {1})
    \/ WaitForStep(1, {3})

SpecPartial == InitWith(MaxTasksWait) /\ [][NextPartial]_vars

\* one engine: write_task and cancel
NextCancel ==
    \/ RunStep
    \/ \E t \in Tasks : TaskCancelled(t)
    \/ JobStart(1) \/ AppendStep(1) \/ CancelJobStep(1)
    \/ SubmitStep(1, 1..MaxPriorityLow)
    \/ CancelStep(1)

SpecCancel == Init /\ [][NextCancel]_vars

\* an engine that submits and cancels, and its clone that waits for all tasks
NextDup ==
    \/ RunStep
    \/ \E t \in Tasks : TaskCancelled(t)
    \/ JobStart(1) \/ AppendStep(1) \/ CancelJobStep(1)
    \/ JobStart(2) \/ WaitJobStep(2)
    \/ SubmitStep(1, {1})
    \/ CancelStep(1)
    \/ WaitAllStep(2)
    \/ Clone

\* Every thread that can run does run: the executor polls a spawned task, a pool
\* thread takes a queued job and runs it, a caller inside an operation goes on,
\* and whoever waits for the Mutex gets it if it is free again and again. No
\* computation has to finish (TaskInsert), and no caller has to call anything.
Fairness ==
    /\ \A t \in 1..MaxTasksDup :
           WF_vars(TaskIncrement(t) \/ TaskDecrement(t) \/ TaskCancelled(t))
    /\ WF_vars(JobStart(1) \/ JobStart(2))
    /\ SF_vars(\E j \in active[1] : AppendAcquire(1, j) \/ CancelAcquire(1, j))
    /\ WF_vars(\E j \in active[1] :
                   \/ AppendPush(1, j) \/ CancelPop(1, j)
                   \/ CancelAwaited(1, j) \/ CancelFinish(1, j))
    /\ WF_vars(\E j \in active[2] : WaitFinish(2, j))
    /\ SF_vars(WfaLock(2))
    /\ WF_vars(WfaPoll(2) \/ WfaCheck(2) \/ WfaPop(2) \/ WfaReturn(2))
    /\ WF_vars(CancelStream(1) \/ CancelPoll(1))

SpecDupFair == InitWith(MaxTasksDup) /\ [][NextDup]_vars /\ Fairness

\* one engine whose computations may panic: write_task and wait_for_all_tasks
NextPanic ==
    \/ RunStep
    \/ \E t \in Tasks : TaskPanic(t)
    \/ JobStart(1) \/ AppendStep(1) \/ WaitJobStep(1)
    \/ SubmitStep(1, {1})
    \/ WaitAllStep(1)

\* every computation ends, with a value or with a panic; the executor runs
\* every task, the pool runs every job, the caller goes on inside an operation
FairnessPanic ==
    /\ \A t \in 1..MaxTasks :
           /\ WF_vars(TaskIncrement(t) \/ TaskDecrement(t))
           /\ WF_vars(TaskInsert(t) \/ TaskPanic(t))
    /\ WF_vars(JobStart(1))
    /\ SF_vars(\E j \in active[1] : AppendAcquire(1, j))
    /\ WF_vars(\E j \in active[1] : AppendPush(1, j) \/ WaitFinish(1, j))
    /\ SF_vars(WfaLock(1))
    /\ WF_vars(WfaPoll(1) \/ WfaCheck(1) \/ WfaPop(1) \/ WfaReturn(1))

SpecPanicFair == Init /\ [][NextPanic]_vars /\ FairnessPanic

\* one engine, every operation: write_task, cancel, wait_for, wait_for_all_tasks
NextLive ==
    \/ RunStep
    \/ \E t \in Tasks : TaskCancelled(t)
    \/ JobStart(1) \/ AppendStep(1) \/ CancelJobStep(1) \/ WaitJobStep(1)
    \/ SubmitStep(1, {1})
    \/ CancelStep(1)
    \/ WaitForStep(1, {MaxTasksDup})
    \/ WaitAllStep(1)

\* every computation terminates; the executor runs every task, the pool runs
\* every job, whoever waits for the Mutex gets it if it is free again and
\* again, and the caller goes on inside an operation
FairnessLive ==
    /\ \A t \in 1..MaxTasks :
           WF_vars(TaskIncrement(t) \/ TaskInsert(t) \/ TaskDecrement(t)
                      \/ TaskCancelled(t))
    /\ WF_vars(JobStart(1))
    /\ SF_vars(\E j \in active[1] : AppendAcquire(1, j) \/ CancelAcquire(1, j))
    /\ WF_vars(\E j \in active[1] :
                   \/ AppendPush(1, j) \/ CancelPop(1, j) \/ CancelAwaited(1, j)
                   \/ CancelFinish(1, j) \/ WaitFinish(1, j))
    /\ SF_vars(WfaLock(1) \/ WfLock(1))
    /\ WF_vars(WfaPoll(1) \/ WfaCheck(1) \/ WfaPop(1) \/ WfaReturn(1))
    /\ WF_vars(WfPoll(1) \/ WfCheck(1) \/ WfGuard(1) \/ WfPop(1)
                  \/ WfUnlock(1) \/ WfReturn(1))
    /\ WF_vars(CancelStream(1) \/ CancelPoll(1))

SpecLiveFair == Init /\ [][NextLive]_vars /\ FairnessLive

\* an engine that submits, cancels and waits for a count, and its clone that
\* submits and waits for all tasks
Next ==
    \/ RunStep
    \/ \E t \in Tasks : TaskCancelled(t)
    \/ JobStart(1) \/ AppendStep(1) \/ CancelJobStep(1) \/ WaitJobStep(1)
    \/ JobStart(2) \/ AppendStep(2) \/ WaitJobStep(2)
    \/ SubmitStep(1, 1..MaxPriorityLow) \/ SubmitStep(2, {1})
    \/ CancelStep(1)
    \/ WaitForStep(1, {MaxTasksDup})
    \/ WaitAllStep(2)
    \/ Clone

Spec == InitWith(MaxTasksDup) /\ [][Next]_vars

(* ------------------- wait_for_all_tasks: the claims --------------------- *)
\* wait_for_all_tasks returns in this step, by the short circuit or after the drain
WfaReturns(e) == pc[e] \in {"wfa_check", "wfa_drain"} /\ pc'[e] = "idle"

DistinctPriorities == \A t, u \in Submitted : t # u => prio[t] # prio[u]

\* C1: when the submitted tasks have distinct priorities, at the moment
\* wait_for_all_tasks returns the Result Stream holds exactly the results of
\* all submitted tasks and its in-flight counter is 0.
C1_DeliveredAtReturn ==
    [][WfaReturns(1) /\ DistinctPriorities => items' = Submitted /\ count' = 0]_vars

\* the priorities of the entries popped by e's drain, in the order of the pops
DrainPriorities(e) == [i \in 1..Len(drainLog[e]) |-> prio[drainLog[e][i]]]

\* the jobs queued on e's pool are the last pops of e's drain, in the same order
QueuedInPopOrder(e) ==
    \A k \in 1..Len(queue[e]) :
        queue[e][k].kind = "wait" =>
            /\ Len(queue[e]) <= Len(drainLog[e])
            /\ queue[e][k].task = drainLog[e][Len(drainLog[e]) - Len(queue[e]) + k]

\* C2: a drain of wait_for_all_tasks schedules its blocking-wait jobs in
\* descending order of priority (3, then 2, then 1 for priorities 1, 2, 3),
\* whatever the submission order and whatever the tasks have done so far.
C2_DrainDescending ==
    pc[1] = "wfa_drain" =>
        /\ \A i, j \in 1..Len(drainLog[1]) :
               i < j => DrainPriorities(1)[i] >= DrainPriorities(1)[j]
        /\ \A t \in Range(registry) : \A i \in 1..Len(drainLog[1]) :
               prio[t] <= DrainPriorities(1)[i]
        /\ QueuedInPopOrder(1)
        /\ (Len(drainLog[1]) = 3 /\ Range(DrainPriorities(1)) = {1, 2, 3}
               => DrainPriorities(1) = <<3, 2, 1>>)

\* priorities 2, 3, 1 in submission order; the priority 1 task done first and the
\* priority 3 task not even started when all three have been scheduled
C2_Witness ==
    /\ pc[1] = "wfa_drain" /\ registry = <<>>
    /\ prio = <<2, 3, 1>>
    /\ DrainPriorities(1) = <<3, 2, 1>>
    /\ Len(queue[1]) = 3
    /\ status[3] = "done" /\ status[2] = "spawned"

\* C3: three tasks submitted with equal priority in the order A, B, C (tasks
\* 1, 2, 3) are popped by wait_for_all_tasks in the order C, B, A.
C3_LifoTieBreak ==
    (/\ pc[1] = "wfa_drain" /\ registry = <<>>
     /\ Len(drainLog[1]) = 3
     /\ prio[1] = prio[2] /\ prio[2] = prio[3])
        => drainLog[1] = <<3, 2, 1>>

\* C6 as stated: a call made while the stream reports empty or the counter is
\* zero never gets to acquire the Registry lock.
C6_ShortCircuitAtCall ==
    atCall[1] = 1 => pc[1] \notin {"wfa_lock", "wfa_drain"}

\* C6 as amended: when, after the initial barrier, the stream reports empty or
\* the counter that was read is zero, wait_for_all_tasks returns in that step
\* without the lock, and changes neither the Registry, the stream nor the pool.
C6_ShortCircuitNoEffect ==
    [][(/\ pc[1] = "wfa_check" /\ pc'[1] # "wfa_check"
        /\ (StreamIsEmpty \/ tc[1] = 0))
          => /\ pc'[1] = "idle"
             /\ UNCHANGED <<registry, lock, queue, active, items, count, status>>]_vars

\* the check is about to short-circuit although the barrier has flushed entries
\* into the Registry and a result is in the stream
C6_Witness ==
    /\ pc[1] = "wfa_check" /\ tc[1] = 0
    /\ registry # <<>> /\ items # {}
    /\ \E t \in Tasks : status[t] = "spawned"

\* C9: a spawned task can always take its next step (increment, deliver its
\* result, decrement), whatever the pool's threads and queue hold.
C9_TaskProgressEnabled ==
    \A t \in Tasks :
        /\ status[t] = "spawned" => ENABLED TaskIncrement(t)
        /\ status[t] = "running" => ENABLED TaskInsert(t)
        /\ status[t] = "inserted" => ENABLED TaskDecrement(t)

\* a task has delivered its result while its append job is still queued behind
\* jobs that occupy every thread of the pool
C9_Witness ==
    \E t \in Tasks :
        /\ status[t] = "done" /\ t \in items /\ t \notin landed
        /\ \E k \in 1..Len(queue[1]) : queue[1][k] = Job("append", t)
        /\ Cardinality(active[1]) = NumThreads

\* C10: when drop has completed, the pool of the engine has no queued and no
\* running job, and every task submitted on it has its handle pushed.
C10_DropQuiescent ==
    pc[1] = "dropped" =>
        /\ queue[1] = <<>> /\ active[1] = {}
        /\ \A t \in Submitted : owner[t] = 1 => t \in landed

\* dropped right after three write_task calls: all three entries are there
C10_Witness ==
    /\ pc[1] = "dropped"
    /\ Submitted = Tasks
    /\ Len(registry) = Cardinality(Tasks)

(* ------------------------ wait_for: the claims -------------------------- *)
\* C7: when count is less than the in-flight counter read after the barrier, or
\* more than the number of Registry entries, the guard step of wait_for pops
\* nothing, schedules nothing, changes neither the Registry nor the stream,
\* releases the lock and goes on to a final barrier that has nothing to wait for.
C7_GuardNoOp ==
    [][(/\ pc[1] = "wf_guard" /\ pc'[1] # "wf_guard"
        /\ (cnt[1] < tc[1] \/ cnt[1] > Len(registry)))
          => /\ pc'[1] = "wf_join"
             /\ lock' = Free
             /\ queue'[1] = <<>> /\ active'[1] = {}
             /\ UNCHANGED <<registry, queue, active, items, count, drainLog>>]_vars

\* wait_for(2) with the counter at 3 and three entries: rejected, lock released
C7_Witness ==
    /\ pc[1] = "wf_join" /\ lock = Free
    /\ tc[1] = 3 /\ cnt[1] = 2
    /\ Len(registry) = 3
    /\ PoolIdle(1)

\* the tasks that have incremented the counter and not yet decremented it
InFlight == {t \in Tasks : status[t] \in {"running", "inserted"}}

\* C8: wait_for(3), called when the in-flight counter is 3 (and still reading 3
\* after the barrier), returns with no task in flight and the counter at 0.
C8_FullDrainOnThree ==
    [][(/\ pc[1] = "wf_join" /\ pc'[1] = "idle"
        /\ atCall[1] = 1 /\ tc[1] = 3)
          => count' = 0 /\ InFlight' = {}]_vars

(* ------------------------- cancel: the claims --------------------------- *)
\* C4: when cancel returns, the Registry is empty and the handle of every
\* submitted task has received a cancel request.
C4_CancelEmptiesRegistry ==
    [][(pc[1] = "cancel_poll" /\ pc'[1] = "idle")
          => /\ registry' = <<>>
             /\ \A t \in Submitted : cancelReq'[t]]_vars

\* C5: cancel, once called, eventually returns,
\* also when computations never finish and the other engine is inside
\* wait_for_all_tasks.
C5_CancelReturns ==
    (pc[1] = "cancel_stream") ~> (pc[1] = "idle")

(* ------------------- an engine and its clone: the claims ---------------- *)
\* the barrier of e has nothing of its own pool to wait for
OwnPoolIdle(e) == queue[e] = <<>> /\ active[e] = {}

\* C11: the engine and its clone work on one Registry and one stream: during a
\* drain of either, every entry pushed by an append job of either engine is
\* still in the Registry or has been popped; and the barrier of an engine
\* returns as soon as its own pool is idle, whatever the other pool holds.
C11_SharedStateOwnPools ==
    /\ \A e \in Engines :
           (pc[e] \in {"wfa_drain", "wf_drain"} =>
                \A t \in landed : t \in Range(registry) \/ t \in popped)
    /\ \A e \in Engines :
           (pc[e] \in {"wfa_poll", "wf_poll", "cancel_poll"} /\ OwnPoolIdle(e)) =>
               ENABLED (WfaPoll(e) \/ WfPoll(e) \/ CancelPoll(e))

\* the clone is past its barrier and has popped an entry of engine 1 while the
\* pool of engine 1 still has a job; engine 1 popped an entry of the clone before
C11_Witness ==
    /\ pc[2] = "wfa_drain"
    /\ \E t \in Range(drainLog[2]) : owner[t] = 1
    /\ ~OwnPoolIdle(1)
    /\ \E u \in popped : owner[u] = 2 /\ u \notin Range(drainLog[2])

(* ------------------------ a panicking computation ----------------------- *)
\* C12: a computation that panics leaves no item in the stream; when the
\* drain has popped everything and its wait jobs are over, every popped task
\* either panicked or is done with its item in the stream; the wait job of
\* a task that did not panic is never held up by the panic; and every
\* wait_for_all_tasks call returns.
C12_PanicConfined ==
    /\ [](\A t \in Tasks : status[t] = "panicked" => t \notin items)
    /\ []((pc[1] = "wfa_drain" /\ registry = <<>> /\ PoolIdle(1)) =>
              \A t \in Range(drainLog[1]) :
                  status[t] = "panicked" \/ (status[t] = "done" /\ t \in items))
    /\ [](\A j \in active[1] :
              (j.kind = "wait" /\ status[j.task] = "done") => ENABLED WaitFinish(1, j))
    /\ ((pc[1] = "wfa_poll") ~> (pc[1] = "idle"))

\* the drain is over with one popped task panicked and another one delivered
C12_Witness ==
    /\ pc[1] = "wfa_drain" /\ registry = <<>> /\ PoolIdle(1)
    /\ \E t \in Range(drainLog[1]) : status[t] = "panicked"
    /\ \E u \in Range(drainLog[1]) : status[u] = "done" /\ u \in items

(* --------------------------- the barrier: claims ------------------------ *)
\* the caller of e is between the return of the first poll and the inspection
\* of the Registry
PastBarrier(e) == pc[e] \in {"wfa_check", "wfa_lock", "wf_check", "wf_lock", "wf_guard"}

\* the number of Registry entries of task t
Entries(t) == Cardinality({i \in DOMAIN registry : registry[i] = t})

\* C13: from the return of the first poll of wait_for_all_tasks or wait_for on
\* e up to its inspection of the Registry, no job is queued or running on the
\* pool of e, and every task submitted through e has had its entry pushed and
\* has exactly one entry in the Registry unless a drain or a cancel popped it.
C13_BarrierLandsAppends ==
    \A e \in Engines :
        PastBarrier(e) =>
            /\ queue[e] = <<>> /\ active[e] = {}
            /\ \A t \in Submitted :
                   owner[t] = e =>
                       /\ t \in landed
                       /\ (t \notin popped => Entries(t) = 1)

\* the clone is about to lock the Registry with an entry of its own in it,
\* while the append job of a task of engine 1 has not run
C13_Witness ==
    /\ pc[2] = "wfa_lock"
    /\ \E t \in Range(registry) : owner[t] = 2
    /\ \E u \in Submitted : owner[u] = 1 /\ u \notin landed

(* ------------------------ the order of the appends ---------------------- *)
\* C14: while nothing sorts the Registry (write_task and cancel only), the
\* entries of one engine are in the order of their write_task calls: an
\* entry of an earlier call is at a lower index than one of a later call.
C14_AppendsInSubmissionOrder ==
    \A i, j \in DOMAIN registry :
        (i < j /\ owner[registry[i]] = owner[registry[j]]) => registry[i] < registry[j]

(* ------------------------- the Registry lock: claims -------------------- *)
\* the parties that are inside a critical section of the Registry Mutex
Holders ==
    UNION {
        {<<j.kind, e, j.task>> : j \in {x \in active[e] : x.kind \in {"append", "cancel"} /\ x.st = "locked"}}
        \cup (IF pc[e] = "wfa_drain" THEN {<<"wfa", e, 0>>} ELSE {})
        \cup (IF pc[e] \in {"wf_guard", "wf_drain"} THEN {<<"wf", e, 0>>} ELSE {})
        : e \in Engines }

\* C15: at most one party is inside a critical section of the Registry Mutex
\* and it is the one the Mutex names; the Registry changes only in a step of
\* the party that holds the Mutex or takes it in that step; and an entry is
\* popped only if no drain or cancel has popped an entry of that task before.
C15_MutualExclusion ==
    /\ [](/\ Cardinality(Holders) <= 1
          /\ (lock = Free <=> Holders = {})
          /\ (lock # Free => Holders = {lock}))
    /\ [][registry' # registry =>
              \/ lock # Free /\ lock' \in {lock, Free}
              \/ lock = Free /\ lock' # Free]_vars
    /\ [][Len(registry') < Len(registry) =>
              /\ Last(registry) \notin popped
              /\ popped' = popped \cup {Last(registry)}]_vars

\* the cancel job holds the Mutex with a popped handle in its hand while an
\* append job of the same pool and the drain of the clone wait for it
C15_Witness ==
    /\ \E j \in active[1] : j.kind = "cancel" /\ j.st = "locked" /\ j.cur # 0
    /\ \E j \in active[1] : j.kind = "append" /\ j.st = "start"
    /\ pc[2] = "wfa_lock"

(* ---------------------------- cancel: the order ------------------------- *)
\* C16: the cancel job issues its cancel requests in descending priority: the
\* entry it has just popped has a priority no lower than that of any entry
\* still in the Registry.
C16_CancelDescending ==
    \A j \in active[1] :
        (j.kind = "cancel" /\ j.cur # 0) =>
            \A i \in DOMAIN registry : prio[registry[i]] <= prio[j.cur]

(* ----------------------- the end of a full drain ------------------------ *)
\* C17: when wait_for_all_tasks returns from its drain, the Registry is
\* empty, every task it popped has resolved, and no job is queued or running
\* on the pool.
C17_DrainedAtReturn ==
    [][(pc[1] = "wfa_drain" /\ pc'[1] = "idle") =>
           /\ registry' = <<>>
           /\ \A t \in Range(drainLog[1]) : status'[t] \in {"done", "cancelled", "panicked"}
           /\ queue'[1] = <<>> /\ active'[1] = {}]_vars

\* the drain has popped more entries than the pool has threads and is about
\* to return
C17_Witness ==
    /\ ENABLED WfaReturn(1)
    /\ Len(drainLog[1]) > NumThreads

(* ------------------------- the in-flight counter ------------------------ *)
\* the steps of a task, in the order of the spawned block
TaskOrder ==
    {<<"none", "spawned">>, <<"spawned", "running">>,
     <<"running", "inserted">>, <<"inserted", "done">>}

\* C18: as long as cancel is not called, the in-flight counter is the number
\* of tasks that have incremented and not yet decremented, and is never
\* negative; a task goes through increment, insert, decrement in this order;
\* and a result is inserted only by a task that is counted in flight, before
\* and after the insert.
C18_CounterTracksInFlight ==
    /\ [](count = Cardinality(InFlight) /\ count >= 0)
    /\ [][\A t \in Tasks :
              status'[t] # status[t] => <<status[t], status'[t]>> \in TaskOrder]_vars
    /\ [][items' # items =>
              \E t \in InFlight :
                  /\ items' = items \cup {t}
                  /\ status'[t] = "inserted"
                  /\ count' = count /\ count >= 1]_vars

\* two tasks are in flight, one of them with its result inserted, and a third
\* one has decremented
C18_Witness ==
    /\ count = 2
    /\ \E t, u, v \in Tasks :
           status[t] = "running" /\ status[u] = "inserted" /\ status[v] = "done"

(* --------------------------- every call returns ------------------------- *)
\* the caller of e is blocked in a poll
InPoll(e) == pc[e] \in {"wfa_poll", "wfa_drain", "wf_poll", "wf_join", "cancel_poll"}

\* a task, a pool thread or a queued job of e can take a step
PoolProgress(e) ==
    ENABLED (RunStep \/ (\E t \in Tasks : TaskCancelled(t)) \/ JobStart(e)
               \/ AppendStep(e) \/ CancelJobStep(e) \/ WaitJobStep(e))

\* C19: on a single engine whose computations all terminate, the caller never
\* waits on a pool whose jobs can all make no step, and every call of
\* wait_for_all_tasks, wait_for and cancel returns (write_task returns at
\* once), also when a drain schedules more wait jobs than the pool has threads.
C19_EveryCallReturns ==
    /\ []((InPoll(1) /\ ~PoolIdle(1)) => PoolProgress(1))
    /\ ((pc[1] # "idle") ~> (pc[1] = "idle"))

\* the drain is in its pops with every pool thread on a wait job and another
\* wait job queued
C19_Witness ==
    /\ pc[1] = "wfa_drain"
    /\ Cardinality({j \in active[1] : j.kind = "wait"}) = NumThreads
    /\ queue[1] # <<>>

(* ------------------------ conservation of handles ----------------------- *)
\* the number of jobs of a kind that own the handle of task t, queued or running
JobsOf(kind, t) ==
    Cardinality({p \in UNION {{e} \X DOMAIN queue[e] : e \in Engines} :
                     queue[p[1]][p[2]].kind = kind /\ queue[p[1]][p[2]].task = t})
    + Cardinality({<<e, j>> \in Engines \X UNION {active[x] : x \in Engines} :
                     j \in active[e] /\ j.kind = kind /\ j.task = t})

\* the number of cancel jobs that have popped the handle of t and await its cancel
CancelsOf(t) ==
    Cardinality({<<e, j>> \in Engines \X UNION {active[x] : x \in Engines} :
                     j \in active[e] /\ j.kind = "cancel" /\ j.cur = t})

\* C20: the handle of a submitted task is in exactly one place: owned by its
\* append job, stored once in the Registry, or popped; a popped handle is
\* owned by at most one wait job or cancel job, and only a popped handle is;
\* a task not submitted has no handle anywhere; the Registry is never longer
\* than the number of tasks submitted.
C20_HandlesConserved ==
    /\ \A t \in Tasks :
           IF status[t] = "none"
           THEN JobsOf("append", t) + Entries(t) + JobsOf("wait", t) + CancelsOf(t) = 0
                /\ t \notin popped
           ELSE /\ JobsOf("append", t) + Entries(t) + (IF t \in popped THEN 1 ELSE 0) = 1
                /\ JobsOf("wait", t) + CancelsOf(t) <= 1
                /\ (JobsOf("wait", t) + CancelsOf(t) = 1 => t \in popped)
    /\ Len(registry) <= Cardinality(Submitted)

\* the handle of one task is owned by a wait job of the clone's drain while the
\* handle of another one is still owned by its append job
C20_Witness ==
    \E t, u \in Submitted :
        /\ JobsOf("append", t) = 1
        /\ JobsOf("wait", u) = 1
        /\ u \in Range(drainLog[2])

====
